---- MODULE Spec2Model ----
(***************************************************************************)
(* Shape-level model of model/PConv.py: autopad, Conv, PConv, the two      *)
(* attention units, the residual block ResNet and the encoder-decoder       *)
(* network MSHNet.  A tensor is modelled by its shape (batch, channels,     *)
(* height, width); every layer is modelled by the shape it produces, the    *)
(* runtime error it raises, and the normalization statistics it writes.     *)
(***************************************************************************)
EXTENDS Integers, Sequences, FiniteSets, TLC

(***************************************************************************)
(* Bounds of the model.                                                     *)
(***************************************************************************)
MaxK == 4          \* kernel sizes 1..MaxK
MaxD == 3          \* dilations 1..MaxD
MaxS == 2          \* strides 1..MaxS
MaxSide == 5       \* unit tensors have sides 1..MaxSide (and 64)
MaxDim == 33       \* network inputs have sides up to MaxDim
MaxCalls == 2      \* forward calls of the network in one behaviour

\* p=None of autopad and Conv.__init__
None == -1

(***************************************************************************)
(* Tensors.  ok = FALSE stands for "the runtime raised before this value    *)
(* was produced"; upd counts the running-statistics updates made so far by  *)
(* the computation that produced the value.                                 *)
(***************************************************************************)
Tensor(b, c, h, w) == [ok |-> TRUE, b |-> b, c |-> c, h |-> h, w |-> w, upd |-> 0]

NoTensor == [ok |-> FALSE, b |-> 0, c |-> 0, h |-> 0, w |-> 0, upd |-> 0]

Raise(t) == [NoTensor EXCEPT !.upd = t.upd]

\* the one element of a singleton: The({e(v) : v \in {a}}) is e(a) with a
\* evaluated once, as a statement evaluates its operand once
The(S) == CHOOSE v \in S : TRUE

\* the value x as it stands once prev has been computed (statements run in order)
Then(prev0, x0) ==
    The({IF prev.ok /\ x.ok THEN [x EXCEPT !.upd = prev.upd] ELSE Raise(prev) :
            prev \in {prev0}, x \in {x0}})

Shape(t) == <<t.b, t.c, t.h, t.w>>

(***************************************************************************)
(* autopad(k, p, d), for an integer kernel size.                            *)
(***************************************************************************)
autopadOdd(k, p, d) ==
    LET k1 == IF d > 1 THEN d * (k - 1) + 1 ELSE k
    IN  IF p = None THEN (k1 - 1) \div 2 ELSE p

autopad(k, p, d) ==
    LET k1 == IF d > 1 THEN d * (k - 1) + 1 ELSE k
    IN  IF p = None THEN k1 \div 2 ELSE p

(***************************************************************************)
(* The runtime's layers, by shape.                                          *)
(***************************************************************************)
\* nn.Conv2d(c1, c2, (kh, kw), s, (ph, pw), dilation=d)
Conv2d(t0, c1, c2, kh, kw, s, ph, pw, d) ==
    The({LET nh == t.h + 2 * ph - d * (kh - 1) - 1
             nw == t.w + 2 * pw - d * (kw - 1) - 1
         IN  IF ~t.ok THEN t
             ELSE IF t.c # c1 \/ nh < 0 \/ nw < 0 THEN Raise(t)
             ELSE [t EXCEPT !.c = c2, !.h = (nh \div s) + 1, !.w = (nw \div s) + 1] :
            t \in {t0}})

\* nn.BatchNorm2d(c): in training mode it counts the batch, refuses a single
\* value per channel, and rewrites its running statistics
BatchNorm2dEvalWrites(t0, c, train) ==
    The({IF ~t.ok THEN t
         ELSE IF t.c # c THEN Raise(t)
         ELSE IF train /\ t.b * t.h * t.w = 1 THEN Raise([t EXCEPT !.upd = t.upd + 1])
         ELSE [t EXCEPT !.upd = t.upd + 1] :
            t \in {t0}})

BatchNorm2d(t0, c, train) ==
    The({IF ~t.ok THEN t
         ELSE IF t.c # c THEN Raise(t)
         ELSE IF ~train THEN t
         ELSE IF t.b * t.h * t.w = 1 THEN Raise([t EXCEPT !.upd = t.upd + 1])
         ELSE [t EXCEPT !.upd = t.upd + 1] :
            t \in {t0}})

\* nn.ZeroPad2d(padding=(left, right, top, bottom))
ZeroPad2d(t0, p) ==
    The({IF ~t.ok THEN t ELSE [t EXCEPT !.w = t.w + p[1] + p[2], !.h = t.h + p[3] + p[4]] :
            t \in {t0}})

MaxPool2dCeil(t0) ==
    The({IF ~t.ok THEN t ELSE [t EXCEPT !.h = (t.h + 1) \div 2, !.w = (t.w + 1) \div 2] :
            t \in {t0}})

\* nn.MaxPool2d(2, 2)
MaxPool2d(t0) ==
    The({IF ~t.ok THEN t
         ELSE IF t.h < 2 \/ t.w < 2 THEN Raise(t)
         ELSE [t EXCEPT !.h = t.h \div 2, !.w = t.w \div 2] :
            t \in {t0}})

\* nn.Upsample(scale_factor=f)
Upsample(t0, f) ==
    The({IF ~t.ok THEN t ELSE [t EXCEPT !.h = t.h * f, !.w = t.w * f] : t \in {t0}})

\* torch.cat(ts, dim=1): the operands are computed in order
RECURSIVE CatFrom(_, _, _)
CatFrom(ts, i, acc0) ==
    The({IF i > Len(ts) THEN acc
         ELSE IF ~acc.ok THEN acc
         ELSE IF ~ts[i].ok THEN Raise(ts[i])
         ELSE IF <<ts[i].b, ts[i].h, ts[i].w>> # <<acc.b, acc.h, acc.w>> THEN Raise(ts[i])
         ELSE CatFrom(ts, i + 1, [acc EXCEPT !.c = acc.c + ts[i].c, !.upd = ts[i].upd]) :
            acc \in {acc0}})

Cat(ts0) == The({CatFrom(ts, 2, ts[1]) : ts \in {ts0}})

\* a * b with broadcasting
Bcast(m, n) == m = n \/ m = 1 \/ n = 1
Max(m, n) == IF m >= n THEN m ELSE n

Mul(a0, t0) ==
    The({IF ~a.ok THEN a
         ELSE IF ~t.ok THEN t
         ELSE IF ~(Bcast(a.b, t.b) /\ Bcast(a.c, t.c) /\ Bcast(a.h, t.h) /\ Bcast(a.w, t.w))
              THEN Raise(a)
         ELSE [t EXCEPT !.b = Max(a.b, t.b), !.c = Max(a.c, t.c), !.h = Max(a.h, t.h),
                        !.w = Max(a.w, t.w), !.upd = a.upd] :
            a \in {a0}, t \in {t0}})

\* out += residual: in place, so the sum must have out's shape
IAdd(out0, residual0) ==
    The({IF ~o.ok THEN o
         ELSE IF ~r.ok THEN r
         ELSE IF \A i \in 1..4 : Shape(r)[i] = Shape(o)[i] \/ Shape(r)[i] = 1 THEN o
         ELSE Raise(o) :
            o \in {out0}, r \in {residual0}})

(***************************************************************************)
(* class Conv: convolution, normalization, activation.                      *)
(***************************************************************************)
\* Conv(c1, c2, k, s, p, d=d) with an integer kernel size
ConvInit(c1, c2, k, s, p, d) ==
    [c1 |-> c1, c2 |-> c2, kh |-> k, kw |-> k, s |-> s,
     ph |-> autopad(k, p, d), pw |-> autopad(k, p, d), d |-> d]

\* Conv(c1, c2, (kh, kw), s, p, d=d) with a tuple kernel size
ConvInitT(c1, c2, kh, kw, s, p, d) ==
    [c1 |-> c1, c2 |-> c2, kh |-> kh, kw |-> kw, s |-> s,
     ph |-> autopad(kh, p, d), pw |-> autopad(kw, p, d), d |-> d]

ConvForward(m0, x, train) ==
    The({BatchNorm2d(Conv2d(x, m.c1, m.c2, m.kh, m.kw, m.s, m.ph, m.pw, m.d), m.c2, train) :
            m \in {m0}})

(***************************************************************************)
(* class PConv: four padded views, two shared directional convolutions,     *)
(* concatenation, 2x2 fusion.                                               *)
(***************************************************************************)
PConvPadSymmetric(k) == << <<k, 0, 0, 0>>, <<0, k, 0, 0>>, <<0, 0, k, 0>>, <<0, 0, 0, k>> >>

PConvPad(k) == << <<k, 0, 1, 0>>, <<0, k, 0, 1>>, <<0, 1, k, 0>>, <<1, 0, 0, k>> >>

PConvInit(c1, c2, k, s) ==
    [pad |-> PConvPad(k),
     cw  |-> ConvInitT(c1, c2 \div 4, 1, k, s, 0, 1),
     ch  |-> ConvInitT(c1, c2 \div 4, k, 1, s, 0, 1),
     cat |-> ConvInit(c2, c2, 2, 1, 0, 1)]

\* the branch outputs yw0, yw1, yh0, yh1, computed in this order: branch g pads
\* x with pad[g] and applies cw (g = 1, 2) or ch (g = 3, 4)
RECURSIVE PConvBranchesFrom(_, _, _, _, _)
PConvBranchesFrom(m, x, train, g, ys0) ==
    The({IF g > 4 THEN ys
         ELSE PConvBranchesFrom(m, x, train, g + 1,
                  Append(ys, ConvForward(IF g <= 2 THEN m.cw ELSE m.ch,
                                         ZeroPad2d(IF g = 1 THEN x ELSE Then(ys[g - 1], x),
                                                   m.pad[g]),
                                         train))) :
            ys \in {ys0}})

PConvBranches(m0, x0, train) ==
    The({PConvBranchesFrom(m, x, train, 1, <<>>) : m \in {m0}, x \in {x0}})

PConvForward(m0, x, train) ==
    The({ConvForward(m.cat, Cat(PConvBranches(m, x, train)), train) : m \in {m0}})

(***************************************************************************)
(* The attention units: gates that never change the gated tensor's shape.   *)
(***************************************************************************)
\* ChannelAttention(in_planes): (b, c, h, w) -> (b, c, 1, 1)
ChannelAttentionForward(in_planes, x0) ==
    The({Conv2d(Conv2d(IF x.ok THEN [x EXCEPT !.h = 1, !.w = 1] ELSE x,
                       in_planes, in_planes \div 16, 1, 1, 1, 0, 0, 1),
                in_planes \div 16, in_planes, 1, 1, 1, 0, 0, 1) :
            x \in {x0}})

\* SpatialAttention(kernel_size=7): (b, c, h, w) -> (b, 1, h, w)
SpatialAttentionForward(x0) ==
    The({Conv2d(Cat(<<IF x.ok THEN [x EXCEPT !.c = 1] ELSE x,
                      IF x.ok THEN [x EXCEPT !.c = 1] ELSE x>>), 2, 1, 7, 7, 1, 3, 3, 1) :
            x \in {x0}})

(***************************************************************************)
(* class ResNet: the residual block.                                        *)
(***************************************************************************)
\* nn.Conv2d(c1, c2, kernel_size=k, stride=s, padding=p) as built by ResNet
Conv2dInit(c1, c2, k, s, p) ==
    [c1 |-> c1, c2 |-> c2, kh |-> k, kw |-> k, s |-> s, ph |-> p, pw |-> p, d |-> 1]

Conv2dForward(m0, x) ==
    The({Conv2d(x, m.c1, m.c2, m.kh, m.kw, m.s, m.ph, m.pw, m.d) : m \in {m0}})

ResNetInit(in_channels, out_channels, stride, PC) ==
    [in_channels |-> in_channels, out_channels |-> out_channels, stride |-> stride,
     PC |-> PC,
     shortcut |-> (stride # 1 \/ out_channels # in_channels)]

\* self.conv1 and self.conv2 as __init__ builds them: PConv units if PC, else nn.Conv2d
ResNetConv1(m) ==
    IF m.PC THEN PConvInit(m.in_channels, m.out_channels, 4, m.stride)
    ELSE Conv2dInit(m.in_channels, m.out_channels, 3, m.stride, 1)

ResNetConv2NoPad(m) ==
    IF m.PC THEN PConvInit(m.out_channels, m.out_channels, 3, m.stride)
    ELSE Conv2dInit(m.out_channels, m.out_channels, 3, 1, 0)

ResNetConv2(m) ==
    IF m.PC THEN PConvInit(m.out_channels, m.out_channels, 3, m.stride)
    ELSE Conv2dInit(m.out_channels, m.out_channels, 3, 1, 1)

\* the projection shortcut (1x1 convolution of the block's stride, normalization),
\* or the input itself
ResNetShortcut(m, x, train) ==
    IF m.shortcut
    THEN BatchNorm2d(Conv2d(x, m.in_channels, m.out_channels, 1, 1, m.stride, 0, 0, 1),
                     m.out_channels, train)
    ELSE x

\* conv1 .. bn2 (PC=False), or conv1, conv2 (PC=True); x is the input as it
\* stands once the shortcut has been computed
ResNetMain(m, x, train) ==
    IF m.PC
    THEN PConvForward(ResNetConv2(m), PConvForward(ResNetConv1(m), x, train), train)
    ELSE BatchNorm2d(Conv2dForward(ResNetConv2(m),
                                   BatchNorm2d(Conv2dForward(ResNetConv1(m), x),
                                               m.out_channels, train)),
                     m.out_channels, train)

\* out = self.ca(out) * out; out = self.sa(out) * out
ResNetGates(m, main0) ==
    The({The({Mul(SpatialAttentionForward(ca), ca) :
                 ca \in {Mul(ChannelAttentionForward(m.out_channels, main), main)}}) :
            main \in {main0}})

\* forward, with the values it passes through: the shortcut's result, the main
\* path's result before the gates, and the block's output
ResNetParts(m0, x0, train) ==
    The({The({The({[residual |-> residual, main |-> main,
                    out |-> IAdd(ResNetGates(m, main), residual)] :
                      main \in {ResNetMain(m, Then(residual, x), train)}}) :
                 residual \in {ResNetShortcut(m, x, train)}}) :
            m \in {m0}, x \in {x0}})

ResNetForward(m, x, train) == ResNetParts(m, x, train).out

(***************************************************************************)
(* class MSHNet: construction.                                              *)
(***************************************************************************)
param_channels == <<16, 32, 64, 128, 256>>
param_blocks == <<2, 2, 2, 2>>

\* _make_layer(in_channels, out_channels, block, block_num, PC)
MakeLayerAllPC(in_channels, out_channels, block_num, PC) ==
    <<ResNetInit(in_channels, out_channels, 1, PC)>>
        \o [i \in 1..(block_num - 1) |-> ResNetInit(out_channels, out_channels, 1, PC)]

MakeLayer(in_channels, out_channels, block_num, PC) ==
    <<ResNetInit(in_channels, out_channels, 1, PC)>>
        \o [i \in 1..(block_num - 1) |-> ResNetInit(out_channels, out_channels, 1, FALSE)]

LayerNames == {"encoder_0", "encoder_1", "encoder_2", "encoder_3", "middle_layer",
               "decoder_3", "decoder_2", "decoder_1", "decoder_0"}

MSHNetInit(input_channels, PC) ==
    [input_channels |-> input_channels,
     PC |-> PC,
     conv_init |-> Conv2dInit(input_channels, param_channels[1], 1, 1, 0),
     encoder_0 |-> MakeLayer(param_channels[1], param_channels[1], 1, PC),
     encoder_1 |-> MakeLayer(param_channels[1], param_channels[2], param_blocks[1], FALSE),
     encoder_2 |-> MakeLayer(param_channels[2], param_channels[3], param_blocks[2], FALSE),
     encoder_3 |-> MakeLayer(param_channels[3], param_channels[4], param_blocks[3], FALSE),
     middle_layer |-> MakeLayer(param_channels[4], param_channels[5], param_blocks[4], FALSE),
     decoder_3 |-> MakeLayer(param_channels[4] + param_channels[5], param_channels[4],
                             param_blocks[3], FALSE),
     decoder_2 |-> MakeLayer(param_channels[3] + param_channels[4], param_channels[3],
                             param_blocks[2], FALSE),
     decoder_1 |-> MakeLayer(param_channels[2] + param_channels[3], param_channels[2],
                             param_blocks[1], FALSE),
     decoder_0 |-> MakeLayer(param_channels[1] + param_channels[2], param_channels[1], 1, FALSE),
     output_0 |-> Conv2dInit(param_channels[1], 1, 1, 1, 0),
     output_1 |-> Conv2dInit(param_channels[2], 1, 1, 1, 0),
     output_2 |-> Conv2dInit(param_channels[3], 1, 1, 1, 0),
     output_3 |-> Conv2dInit(param_channels[4], 1, 1, 1, 0),
     final |-> Conv2dInit(4, 1, 3, 1, 1)]

\* nn.Sequential(*layer): the blocks in order
RECURSIVE SequentialFrom(_, _, _, _)
SequentialFrom(layer, i, x0, train) ==
    The({IF i > Len(layer) THEN x
         ELSE SequentialFrom(layer, i + 1, ResNetForward(layer[i], x, train), train) :
            x \in {x0}})

Sequential(layer, x, train) == SequentialFrom(layer, 1, x, train)

(***************************************************************************)
(* State.                                                                   *)
(***************************************************************************)
VARIABLES
    net,        \* the constructed MSHNet
    training,   \* nn.Module.training of the network and every unit
    weights,    \* version of the convolution weights, biases, scales and shifts
    tracked,    \* running-statistics updates made so far (sum of num_batches_tracked)
    x,          \* the input tensor
    pc,         \* the statement MSHNet.forward is at
    warm_flag,  \* forward's argument
    feat,       \* x_e0 .. x_d0: the feature maps computed so far
    trace,      \* the stages executed so far
    ret,        \* the value forward returned
    failedAt,   \* where the runtime raised
    prev,       \* the previous call of forward, once it has ended
    calls,      \* forward calls made
    unit,       \* a unit under test: autopad, Conv, PConv or ResNet
    out,        \* what the unit returned
    mid,        \* the values the unit passed through
    called      \* whether the unit has been called

netVars == <<net, x, pc, warm_flag, feat, trace, ret, failedAt, prev, calls>>
unitVars == <<unit, out, mid, called>>
vars == <<net, training, weights, tracked, x, pc, warm_flag, feat, trace, ret, failedAt,
          prev, calls, unit, out, mid, called>>

FeatNames == {"x_e0", "x_e1", "x_e2", "x_e3", "x_m", "x_d3", "x_d2", "x_d1", "x_d0"}
NoFeat == [n \in FeatNames |-> NoTensor]
NoRet == [aux |-> <<>>, output |-> NoTensor, heads |-> <<>>]
NoPrev == [ended |-> FALSE]
NoUnit == [kind |-> "none"]
NoFail == <<>>

\* a stored tensor carries no count
Strip(t) == [t EXCEPT !.upd = 0]

Dims == {n \in 1..MaxDim : n <= 2 \/ n % 4 = 0 \/ n % 16 \in {1, 2}}
Batches == 1..2
Inputs(c) == {Tensor(b, c, h, w) : b \in Batches, h \in Dims, w \in Dims}

Init ==
    /\ \E PC \in BOOLEAN : net = MSHNetInit(3, PC)
    /\ training = TRUE
    /\ weights = 0
    /\ tracked = 0
    /\ x \in Inputs(3)
    /\ pc = "idle"
    /\ warm_flag = FALSE
    /\ feat = NoFeat
    /\ trace = <<>>
    /\ ret = NoRet
    /\ failedAt = NoFail
    /\ prev = NoPrev
    /\ calls = 0
    /\ unit = NoUnit
    /\ out = NoTensor
    /\ mid = <<>>
    /\ called = FALSE

(***************************************************************************)
(* nn.Module.train() and nn.Module.eval(), between calls.                   *)
(***************************************************************************)
Train ==
    /\ pc = "idle"
    /\ ~training
    /\ training' = TRUE
    /\ UNCHANGED <<weights, tracked, netVars, unitVars>>

Eval ==
    /\ pc = "idle"
    /\ training
    /\ training' = FALSE
    /\ UNCHANGED <<weights, tracked, netVars, unitVars>>

(***************************************************************************)
(* MSHNet.forward(x, warm_flag), one statement at a time.                   *)
(***************************************************************************)
Call ==
    /\ pc = "idle"
    /\ calls < MaxCalls
    /\ \E flag \in BOOLEAN : warm_flag' = flag
    /\ pc' = "encoder_0"
    /\ calls' = calls + 1
    /\ feat' = NoFeat
    /\ trace' = <<>>
    /\ ret' = NoRet
    /\ failedAt' = NoFail
    /\ UNCHANGED <<net, training, weights, tracked, x, prev, unitVars>>

\* one statement x_<name> = <layer>(<input>): the input is pooled or concatenated
\* (pre), then the layer's blocks run
Stage(stage, name, pre, next) ==
    /\ pc = stage
    /\ \E r \in {Sequential(net[stage], pre, training)} :
          /\ tracked' = tracked + r.upd
          /\ IF r.ok
             THEN /\ feat' = [feat EXCEPT ![name] = Strip(r)]
                  /\ pc' = next
                  /\ failedAt' = failedAt
             ELSE /\ feat' = feat
                  /\ pc' = "failed"
                  /\ failedAt' = <<stage, IF pre.ok THEN "layer" ELSE "input">>
    /\ trace' = Append(trace, stage)
    /\ UNCHANGED <<net, training, weights, x, warm_flag, ret, prev, calls, unitVars>>

Encoder0 == Stage("encoder_0", "x_e0", Conv2dForward(net.conv_init, x), "encoder_1")
Encoder1 == Stage("encoder_1", "x_e1", MaxPool2d(feat.x_e0), "encoder_2")
Encoder2 == Stage("encoder_2", "x_e2", MaxPool2d(feat.x_e1), "encoder_3")
Encoder3 == Stage("encoder_3", "x_e3", MaxPool2d(feat.x_e2), "middle_layer")
MiddleWarmSkips ==
    IF warm_flag
    THEN /\ pc = "middle_layer"
         /\ trace' = trace
         /\ feat' = [feat EXCEPT !.x_m = MaxPool2d(feat.x_e3)]
         /\ pc' = "decoder_3"
         /\ UNCHANGED <<net, training, weights, tracked, x, warm_flag, ret, failedAt, prev,
                        calls, unitVars>>
    ELSE Stage("middle_layer", "x_m", MaxPool2d(feat.x_e3), "decoder_3")

Middle == Stage("middle_layer", "x_m", MaxPool2d(feat.x_e3), "decoder_3")
Decoder3 == Stage("decoder_3", "x_d3", Cat(<<feat.x_e3, Upsample(feat.x_m, 2)>>), "decoder_2")
Decoder2 == Stage("decoder_2", "x_d2", Cat(<<feat.x_e2, Upsample(feat.x_d3, 2)>>), "decoder_1")
Decoder1 == Stage("decoder_1", "x_d1", Cat(<<feat.x_e1, Upsample(feat.x_d2, 2)>>), "decoder_0")
Decoder0 == Stage("decoder_0", "x_d0", Cat(<<feat.x_e0, Upsample(feat.x_d1, 2)>>), "output")

\* the warm path with self.up_16 (scale factor 4) on the coarsest mask
OutputWarmUp16 ==
    LET mask0 == Conv2dForward(net.output_0, feat.x_d0)
        mask1 == Conv2dForward(net.output_1, feat.x_d1)
        mask2 == Conv2dForward(net.output_2, feat.x_d2)
        mask3 == Conv2dForward(net.output_3, feat.x_d3)
        output == Conv2dForward(net.final, Cat(<<mask0, Upsample(mask1, 2),
                                                 Upsample(mask2, 4), Upsample(mask3, 4)>>))
    IN  /\ pc = "output"
        /\ warm_flag
        /\ IF output.ok
           THEN /\ ret' = [aux |-> <<mask0, mask1, mask2, mask3>>, output |-> output,
                           heads |-> <<"output_0", "output_1", "output_2", "output_3", "final">>]
                /\ pc' = "done"
                /\ failedAt' = failedAt
           ELSE /\ ret' = ret
                /\ pc' = "failed"
                /\ failedAt' = <<"output", "heads">>
        /\ UNCHANGED <<net, training, weights, tracked, x, warm_flag, feat, trace, prev,
                       calls, unitVars>>

\* if warm_flag: four heads, upsampled, concatenated and fused
OutputWarm ==
    LET mask0 == Conv2dForward(net.output_0, feat.x_d0)
        mask1 == Conv2dForward(net.output_1, feat.x_d1)
        mask2 == Conv2dForward(net.output_2, feat.x_d2)
        mask3 == Conv2dForward(net.output_3, feat.x_d3)
        output == Conv2dForward(net.final, Cat(<<mask0, Upsample(mask1, 2),
                                                 Upsample(mask2, 4), Upsample(mask3, 8)>>))
    IN  /\ pc = "output"
        /\ warm_flag
        /\ IF output.ok
           THEN /\ ret' = [aux |-> <<mask0, mask1, mask2, mask3>>, output |-> output,
                           heads |-> <<"output_0", "output_1", "output_2", "output_3", "final">>]
                /\ pc' = "done"
                /\ failedAt' = failedAt
           ELSE /\ ret' = ret
                /\ pc' = "failed"
                /\ failedAt' = <<"output", "heads">>
        /\ UNCHANGED <<net, training, weights, tracked, x, warm_flag, feat, trace, prev,
                       calls, unitVars>>

\* the plain path with the head of decoder stage 1
OutputPlainCoarse ==
    LET output == Conv2dForward(net.output_1, feat.x_d1)
    IN  /\ pc = "output"
        /\ ~warm_flag
        /\ ret' = [aux |-> <<>>, output |-> output, heads |-> <<"output_1">>]
        /\ pc' = "done"
        /\ UNCHANGED <<net, training, weights, tracked, x, warm_flag, feat, trace, prev,
                       calls, failedAt, unitVars>>

\* else: the single head
OutputPlain ==
    LET output == Conv2dForward(net.output_0, feat.x_d0)
    IN  /\ pc = "output"
        /\ ~warm_flag
        /\ IF output.ok
           THEN /\ ret' = [aux |-> <<>>, output |-> output, heads |-> <<"output_0">>]
                /\ pc' = "done"
                /\ failedAt' = failedAt
           ELSE /\ ret' = ret
                /\ pc' = "failed"
                /\ failedAt' = <<"output", "heads">>
        /\ UNCHANGED <<net, training, weights, tracked, x, warm_flag, feat, trace, prev,
                       calls, unitVars>>

\* forward has returned or raised: the caller has the result, the tensors are dropped
Return ==
    /\ pc \in {"done", "failed"}
    /\ prev' = [ended |-> TRUE, warm_flag |-> warm_flag, training |-> training,
                returned |-> (pc = "done"), feat |-> feat, trace |-> trace,
                failedAt |-> failedAt]
    /\ pc' = "idle"
    /\ UNCHANGED <<net, training, weights, tracked, x, warm_flag, feat, trace, ret,
                   failedAt, calls, unitVars>>

Forward ==
    \/ Call
    \/ Encoder0 \/ Encoder1 \/ Encoder2 \/ Encoder3
    \/ Middle
    \/ Decoder3 \/ Decoder2 \/ Decoder1 \/ Decoder0
    \/ OutputWarm \/ OutputPlain
    \/ Return

Next == Train \/ Eval \/ Forward

Spec == Init /\ [][Next]_vars

(***************************************************************************)
(* The units on their own: one unit is built, then called once.             *)
(***************************************************************************)
MaxPad == 2        \* explicit paddings 0..MaxPad
MaxC2 == 8         \* PConv output channels 4..MaxC2 (and 32)

Sides == 1..MaxSide
Pads == {None} \cup 0..MaxPad
UnitInputs(c, sides) == {Tensor(b, c, h, w) : b \in Batches, h \in sides, w \in sides}
BlockChannels == {16, 18, 32}

AutopadUnits ==
    {[kind |-> "autopad", k |-> k, p |-> p, d |-> d] : k \in 1..MaxK, p \in Pads, d \in 1..MaxD}

ConvUnits ==
    {[kind |-> "Conv", k |-> k, s |-> s, p |-> p, d |-> d, m |-> ConvInit(16, 32, k, s, p, d)] :
        k \in 1..MaxK, s \in 1..MaxS, p \in Pads, d \in 1..MaxD}

PConvUnits ==
    {[kind |-> "PConv", c2 |-> c2, k |-> k, s |-> s, m |-> PConvInit(16, c2, k, s)] :
        c2 \in 4..MaxC2 \cup {32}, k \in 1..MaxK, s \in 1..MaxS}

ResNetUnits ==
    {[kind |-> "ResNet", m |-> ResNetInit(cin, cout, s, PC)] :
        cin \in BlockChannels, cout \in BlockChannels, s \in 1..MaxS, PC \in BOOLEAN}

InitUnit ==
    /\ net = MSHNetInit(3, FALSE)
    /\ training = TRUE
    /\ weights = 0
    /\ tracked = 0
    /\ \/ unit \in AutopadUnits /\ x = NoTensor
       \/ unit \in ConvUnits /\ x \in UnitInputs(16, Sides)
       \/ unit \in PConvUnits /\ x \in UnitInputs(16, Sides \cup {64})
       \/ unit \in ResNetUnits /\ x \in UnitInputs(unit.m.in_channels, Sides)
    /\ pc = "idle"
    /\ warm_flag = FALSE
    /\ feat = NoFeat
    /\ trace = <<>>
    /\ ret = NoRet
    /\ failedAt = NoFail
    /\ prev = NoPrev
    /\ calls = 0
    /\ out = NoTensor
    /\ mid = <<>>
    /\ called = FALSE

AutopadCall ==
    /\ unit.kind = "autopad"
    /\ ~called
    /\ called' = TRUE
    /\ out' = autopad(unit.k, unit.p, unit.d)
    /\ UNCHANGED <<training, weights, tracked, netVars, unit, mid>>

ConvCall ==
    /\ unit.kind = "Conv"
    /\ ~called
    /\ called' = TRUE
    /\ \E y \in {ConvForward(unit.m, x, training)} :
          /\ out' = y
          /\ tracked' = tracked + y.upd
    /\ UNCHANGED <<training, weights, netVars, unit, mid>>

PConvCall ==
    /\ unit.kind = "PConv"
    /\ ~called
    /\ called' = TRUE
    /\ mid' = PConvBranches(unit.m, x, training)
    /\ \E y \in {PConvForward(unit.m, x, training)} :
          /\ out' = y
          /\ tracked' = tracked + y.upd
    /\ UNCHANGED <<training, weights, netVars, unit>>

ResNetCall ==
    /\ unit.kind = "ResNet"
    /\ ~called
    /\ called' = TRUE
    /\ \E parts \in {ResNetParts(unit.m, x, training)} :
          /\ mid' = <<parts.residual, parts.main>>
          /\ out' = parts.out
          /\ tracked' = tracked + parts.out.upd
    /\ UNCHANGED <<training, weights, netVars, unit>>

\* the unit is put in its mode before it is called
NextUnit ==
    \/ ~called /\ Train
    \/ ~called /\ Eval
    \/ AutopadCall \/ ConvCall \/ PConvCall \/ ResNetCall

SpecUnit == InitUnit /\ [][NextUnit]_vars

(***************************************************************************)
(* Properties of MSHNet.forward, checked under Spec.                        *)
(***************************************************************************)
Finished == pc \in {"done", "failed"}
Mult16(n) == n % 16 = 0
Valid16 == Mult16(x.h) /\ Mult16(x.w)

\* in training mode the bottleneck's normalization needs more than one value per
\* channel: at a sixteenth of the input's sides, B * (H/16) * (W/16) > 1
Accepted == training => x.b * (x.h \div 16) * (x.w \div 16) > 1

PlainResult ==
    /\ pc = "done"
    /\ ret.aux = <<>>
    /\ ret.heads = <<"output_0">>
    /\ ret.output = Conv2dForward(net.output_0, feat.x_d0)
    /\ Shape(ret.output) = <<x.b, 1, x.h, x.w>>

\* C1 as stated: every input with H and W multiples of 16, passed with the flag
\* false, runs to completion and returns ([], map of shape (B, 1, H, W)), the map
\* being the 1x1 head output_0 applied to x_d0.
C1_PlainAnyMode == (Finished /\ ~warm_flag /\ Valid16) => PlainResult

\* C1, amended: the same, for the inputs the normalization layers accept (in
\* training mode B * (H/16) * (W/16) > 1; no condition in evaluation mode).
C1_PlainOutput == (Finished /\ ~warm_flag /\ Valid16 /\ Accepted) => PlainResult

C1_Witness ==
    /\ pc = "done" /\ ~warm_flag /\ x.h = 32 /\ x.w = 16 /\ x.b = 2
    /\ Shape(ret.output) = <<2, 1, 32, 16>>

WarmResult ==
    /\ pc = "done"
    /\ Len(ret.aux) = 4
    /\ Shape(ret.aux[1]) = <<x.b, 1, x.h, x.w>>
    /\ Shape(ret.aux[2]) = <<x.b, 1, x.h \div 2, x.w \div 2>>
    /\ Shape(ret.aux[3]) = <<x.b, 1, x.h \div 4, x.w \div 4>>
    /\ Shape(ret.aux[4]) = <<x.b, 1, x.h \div 8, x.w \div 8>>
    /\ \A i \in 1..4 : 2 * ret.aux[i].h = IF i = 1 THEN 2 * x.h ELSE ret.aux[i - 1].h
    /\ Shape(Upsample(ret.aux[2], 2)) = Shape(ret.aux[1])
    /\ Shape(Upsample(ret.aux[3], 4)) = Shape(ret.aux[1])
    /\ Shape(Upsample(ret.aux[4], 8)) = Shape(ret.aux[1])
    /\ Shape(ret.output) = <<x.b, 1, x.h, x.w>>

\* C2 as stated: every input with H and W multiples of 16, passed with the flag
\* true, returns four one-channel maps of sizes H, H/2, H/4, H/8 (finest first),
\* whose x2, x4, x8 upsamplings all reach HxW, and a fused map of shape (B, 1, H, W).
C2_WarmAnyMode == (Finished /\ warm_flag /\ Valid16) => WarmResult

\* C2, amended: the same, for the inputs the normalization layers accept.
C2_WarmOutput == (Finished /\ warm_flag /\ Valid16 /\ Accepted) => WarmResult

C2_Witness ==
    /\ pc = "done" /\ warm_flag /\ training /\ x.h = 32 /\ x.w = 32
    /\ Shape(ret.aux[4]) = <<x.b, 1, 4, 4>>

\* the statement at which a side of n first meets an inconsistent size: a pooling
\* of a side of 1, or a concatenation of a skip with an upsampled map of another size
BadStageIndex(n) ==
    IF n < 2 THEN 2 ELSE IF n < 4 THEN 3 ELSE IF n < 8 THEN 4 ELSE IF n < 16 THEN 5
    ELSE IF (n \div 8) % 2 = 1 THEN 6
    ELSE IF (n \div 4) % 2 = 1 THEN 7
    ELSE IF (n \div 2) % 2 = 1 THEN 8
    ELSE IF n % 2 = 1 THEN 9
    ELSE 10

StageOrder == <<"encoder_0", "encoder_1", "encoder_2", "encoder_3", "middle_layer",
                "decoder_3", "decoder_2", "decoder_1", "decoder_0", "output">>

Min(m, n) == IF m <= n THEN m ELSE n
BadStage == StageOrder[Min(BadStageIndex(x.h), BadStageIndex(x.w))]

\* C5 as stated: forward completes if and only if H and W are both multiples of
\* 16, and returns nothing otherwise.
C5_CompletesIffMult16 ==
    Finished =>
        /\ (pc = "done") <=> Valid16
        /\ ~Valid16 => ret = NoRet

\* C5, amended: forward completes if and only if H and W are both multiples of 16
\* and the normalization layers accept the input (in training mode
\* B * (H/16) * (W/16) > 1); when H or W is no multiple of 16 it returns nothing,
\* raising at the first pooling or concatenation that meets the inconsistent size
\* or, in training mode with a batch of one, in a block that is given a 1x1 map
\* no later than that.
C5_Completes ==
    Finished =>
        /\ (pc = "done") <=> (Valid16 /\ Accepted)
        /\ pc = "failed" => ret = NoRet
        /\ ~Valid16 =>
              \/ failedAt = <<BadStage, "input">>
              \/ /\ training /\ x.b = 1 /\ failedAt[2] = "layer"
                 /\ \E i \in 1..Len(StageOrder) :
                        /\ StageOrder[i] = failedAt[1]
                        /\ i < Min(BadStageIndex(x.h), BadStageIndex(x.w))
        /\ (Valid16 /\ ~Accepted) => failedAt = <<"middle_layer", "layer">>

C5_Witness == pc = "failed" /\ x.h = 24 /\ x.w = 16 /\ failedAt = <<"decoder_3", "input">>

\* C6: the flag does not alter the trunk: two calls on the same input in the same
\* mode, one with the flag true and one with it false, execute the same stages
\* and compute feature maps of the same shapes, and end alike.
C6_FlagLeavesTrunk ==
    (Finished /\ prev.ended /\ prev.warm_flag # warm_flag /\ prev.training = training) =>
        /\ prev.trace = trace
        /\ prev.feat = feat
        /\ prev.failedAt = failedAt
        /\ prev.returned = (pc = "done")

C6_Witness ==
    /\ pc = "done" /\ prev.ended /\ prev.returned /\ prev.warm_flag /\ ~warm_flag
    /\ prev.training = training /\ prev.feat = feat /\ feat.x_m.ok

\* C8 as stated: no forward step changes a weight, bias, scale, shift or running
\* statistic (stated here of the steps that do not raise).
C8_ForwardWritesNothing ==
    [][(Forward /\ pc' # "failed") => (weights' = weights /\ tracked' = tracked)]_vars

\* C8, amended: no forward step changes a weight, bias, scale or shift; in
\* evaluation mode none changes a running statistic either; in training mode
\* every stage that runs its blocks to the end updates running statistics.
C8_ForwardWrites ==
    [][Forward =>
          /\ weights' = weights
          /\ ~training => tracked' = tracked
          /\ (training /\ pc \in LayerNames /\ pc' # "failed") => tracked' > tracked]_vars

C8_Witness == pc = "done" /\ ~training /\ calls = 1 /\ tracked = 0

\* C10: whatever PC is, only the single block of encoder_0 is built in
\* partial-convolution mode, and then only if PC is true; _make_layer hands its
\* PC argument to the first block of a layer only.
C10_OnlyEncoder0IsPC ==
    /\ \A l \in LayerNames : \A i \in 1..Len(net[l]) :
           net[l][i].PC = (net.PC /\ l = "encoder_0" /\ i = 1)
    /\ Len(net.encoder_0) = 1
    /\ \A n \in 1..3 : \A PC \in BOOLEAN : \A i \in 1..n :
           /\ Len(MakeLayer(16, 32, n, PC)) = n
           /\ MakeLayer(16, 32, n, PC)[i].PC = (PC /\ i = 1)

C10_Witness == net.PC /\ net.encoder_0[1].PC /\ ~net.encoder_1[1].PC /\ pc = "done"

(***************************************************************************)
(* Properties of the units, checked under SpecUnit.                         *)
(***************************************************************************)
IsCall(kind) == unit.kind = kind /\ called

\* the size a convolution of stride s with 'same' padding gives a side of n
StrideAdjusted(n, s) == ((n - 1) \div s) + 1

\* in training mode a normalization refuses a single value per channel
OneValue(b, h, w) == training /\ b * h * w = 1

C4_StrideAdjusted ==
    (IsCall("PConv") /\ ~training) =>
        /\ \A i \in 1..4 : mid[i].ok =>
               (mid[i].c = unit.c2 \div 4 /\ mid[i].h = mid[1].h /\ mid[i].w = mid[1].w)
        /\ unit.c2 % 4 # 0 => ~out.ok
        /\ unit.c2 % 4 = 0 =>
               /\ out.ok
               /\ out.c = unit.c2
               /\ out.h = StrideAdjusted(x.h, unit.s)
               /\ out.w = StrideAdjusted(x.w, unit.s)

\* C4, amended: the branch outputs have size (floor(H/s)+1) x (floor(W/s)+1) and
\* c2/4 channels each; their concatenation has c2 channels exactly when 4 divides
\* c2 (the fusion raises otherwise); when 4 divides c2 the fusion yields c2
\* channels at floor(H/s) x floor(W/s), which is the stride-adjusted size
\* floor((H-1)/s)+1 only where s divides the side, provided H >= s and W >= s
\* and, in training mode, the result holds more than one value per channel;
\* it raises otherwise.
C4_FloorSize ==
    IsCall("PConv") =>
        /\ \A i \in 1..4 : mid[i].ok =>
               /\ mid[i].c = unit.c2 \div 4
               /\ mid[i].h = (x.h \div unit.s) + 1
               /\ mid[i].w = (x.w \div unit.s) + 1
        /\ (\A i \in 1..4 : mid[i].ok) =>
               (Cat(mid).ok /\ (Cat(mid).c = unit.c2 <=> unit.c2 % 4 = 0))
        /\ out.ok <=> /\ unit.c2 % 4 = 0
                      /\ x.h >= unit.s
                      /\ x.w >= unit.s
                      /\ ~OneValue(x.b, x.h \div unit.s, x.w \div unit.s)
        /\ out.ok => /\ out.c = unit.c2
                     /\ out.h = x.h \div unit.s
                     /\ out.w = x.w \div unit.s
                     /\ (out.h = StrideAdjusted(x.h, unit.s) <=> x.h % unit.s = 0)

C4_Witness ==
    /\ IsCall("PConv") /\ unit.c2 = 32 /\ unit.k = 4 /\ unit.s = 1
    /\ x.h = 64 /\ x.w = 64 /\ Shape(out) = <<x.b, 32, 64, 64>>

SameBlock == IsCall("ResNet") /\ unit.m.in_channels = unit.m.out_channels /\ unit.m.stride = 1
OtherBlock == IsCall("ResNet") /\ ~(unit.m.in_channels = unit.m.out_channels /\ unit.m.stride = 1)

C3_ProjectionMatches ==
    (OtherBlock /\ ~training /\ (unit.m.PC => unit.m.out_channels % 4 = 0)) =>
        /\ unit.m.shortcut
        /\ mid[1].ok /\ mid[2].ok
        /\ Shape(mid[1]) = Shape(mid[2])
        /\ out.ok
        /\ Shape(out) = <<x.b, unit.m.out_channels,
                          StrideAdjusted(x.h, unit.m.stride), StrideAdjusted(x.w, unit.m.stride)>>

====
